---- MODULE Spec2Model ----
(***************************************************************************)
(* Model of blaze::DenseColumn (blaze/math/views/DenseColumn.h): a view on *)
(* one column of a dense matrix, in its three specializations              *)
(*   "CM"  - primary template DenseColumn<MT,SO,SF>  (column-major matrix) *)
(*   "RM"  - DenseColumn<MT,false,false>     (general row-major matrix)    *)
(*   "SYM" - DenseColumn<MT,false,true>      (symmetric row-major matrix)  *)
(* over a matrix whose structural category (IsLower / IsUpper / IsDiagonal *)
(* / not IsRestricted) is fixed at compile time.                           *)
(*                                                                         *)
(* Elements are unsigned integers of a small width (arithmetic modulo      *)
(* Modulus).  Vectors and matrices are indexed from 0 as in the source.    *)
(***************************************************************************)
EXTENDS Integers, Sequences, FiniteSets, TLC

\* ------------------------------------------------------------------ bounds
\* Largest number of rows (= columns) of the backing matrix.
MaxDim == 2
\* Element arithmetic is unsigned arithmetic modulo Modulus.
Modulus == 3

Val == 0 .. (Modulus - 1)
Add(a, b) == (a + b) % Modulus
Sub(a, b) == (a - b + Modulus) % Modulus
Mul(a, b) == (a * b) % Modulus
\* The quotient of integral elements, for a divisor that is not zero.
Div(a, b) == a \div b

\* blaze::isDefault for a built-in element: the value-initialised element.
isDefaultElem(x) == x = 0

Categories == {"Unconstrained", "Lower", "Upper", "Diagonal"}
Variants   == {"CM", "RM", "SYM"}
\* A symmetric matrix that is lower or upper is diagonal, so the symmetric
\* specialization is instantiated for unrestricted and diagonal matrices only.
ValidCombo(v, c) == v = "SYM" => c \in {"Unconstrained", "Diagonal"}

IsLower(c) == c \in {"Lower", "Diagonal"}
IsUpper(c) == c \in {"Upper", "Diagonal"}
IsRestricted(c) == c # "Unconstrained"

Idx(n) == 0 .. (n - 1)
Cells(n) == Idx(n) \X Idx(n)

\* The structural invariant of the matrix type: which elements may be non-default.
Admissible(c, i, j) ==
    /\ (IsLower(c) => j <= i)
    /\ (IsUpper(c) => i <= j)

isLower(m, n) == \A i \in Idx(n), j \in Idx(n) : i < j => isDefaultElem(m[<<i, j>>])
isUpper(m, n) == \A i \in Idx(n), j \in Idx(n) : i > j => isDefaultElem(m[<<i, j>>])
isSymmetric(m, n) == \A i \in Idx(n), j \in Idx(n) : m[<<i, j>>] = m[<<j, i>>]

WellFormed(m, n, v, c) ==
    /\ (IsLower(c) => isLower(m, n))
    /\ (IsUpper(c) => isUpper(m, n))
    /\ (v = "SYM" => isSymmetric(m, n))

VARIABLES
    variant,   \* which specialization of DenseColumn views the matrix
    category,  \* structural category of the matrix type MT
    rows,      \* matrix_.rows() = matrix_.columns()
    matrix_,   \* the elements of the backing matrix, [Cells(rows) -> Val]
    col_,      \* the column index of the view, -1 while no view exists
    pc,        \* "init" | "ready" | "done" | "failed"
    last,      \* the last operation: its name, source, outcome, matrix before
    steps      \* number of operations the view has completed

vars == <<variant, category, rows, matrix_, col_, pc, last, steps>>

NoView == -1

\* ----------------------------------------------------------------- sources
\* The right-hand side of an assignment, a record [kind, n, vals, j]:
\*   "dense"   a dense vector that owns its n elements vals[0..n-1]
\*   "sparse"  a sparse vector of size n that owns its elements; vals[i] is the
\*             stored value at index i, NotStored where no element is stored
\*             (elements are kept in ascending index order)
\*   "column"  a DenseColumn on column j of the SAME matrix (reads the matrix)
\*   "self"    the destination view object itself (on column j = col_)
\*   "foreign" a DenseColumn on a column of ANOTHER matrix of the same type,
\*             which holds vals[0..n-1]
\*   "smult"   the sparse expression s * column(matrix_, j) with s the sparse
\*             vector vals: stored where s is stored, read lazily
NotStored == -1
Zeros(n) == [i \in Idx(n) |-> 0]
NoSrc == [kind |-> "none", n |-> 0, vals |-> Zeros(0), j |-> 0]
NoOp == [op |-> "none", src |-> NoSrc, err |-> "none", old |-> Zeros(0), ret |-> FALSE]

DenseSrc(n, vals) == [kind |-> "dense", n |-> n, vals |-> vals, j |-> 0]
SparseSrc(n, vals) == [kind |-> "sparse", n |-> n, vals |-> vals, j |-> 0]
ColumnSrc(n, j) == [kind |-> "column", n |-> n, vals |-> Zeros(n), j |-> j]
SelfSrc(n, j) == [kind |-> "self", n |-> n, vals |-> Zeros(n), j |-> j]
ForeignSrc(n, vals) == [kind |-> "foreign", n |-> n, vals |-> vals, j |-> 0]
ScaledSrc(n, j, x) == [kind |-> "scaled", n |-> n, vals |-> [i \in Idx(n) |-> x], j |-> j]
DividedSrc(n, j, x) == [kind |-> "divided", n |-> n, vals |-> [i \in Idx(n) |-> x], j |-> j]
SMultSrc(n, vals, j) == [kind |-> "smult", n |-> n, vals |-> vals, j |-> j]

\* IsSparseVector<VT>::value
IsSparseVector(src) == src.kind \in {"sparse", "smult"}

\* ---------------------------------------------------------- element access
\* operator[]: the matrix coordinate of element index of the view on column c.
Coord_rowOfColumn(v, index, c) == IF v = "CM" THEN <<index, c>> ELSE <<c, index>>
Coord(v, index, c) == IF v = "SYM" THEN <<c, index>> ELSE <<index, c>>

\* Read of view element index.
At(m, v, c, index) == m[Coord(v, index, c)]

\* matrix(r,c) = x. The elements of a symmetric matrix at (r,c) and (c,r)
\* are one value.
MatrixSet(m, v, rc, x) ==
    IF v = "SYM"
    THEN [m EXCEPT ![rc] = x, ![<<rc[2], rc[1]>>] = x]
    ELSE [m EXCEPT ![rc] = x]

\* Write through the reference that operator[] returns.
Set_dropped(m, v, c, index, x) == m
Set(m, v, c, index, x) == MatrixSet(m, v, Coord(v, index, c), x)

\* size(): matrix_.rows()
size(n) == n

\* Element i of a source as it reads with the matrix in state m (a sparse
\* source reads the default value where it stores nothing).
SrcStored(src, i) == IsSparseVector(src) => src.vals[i] # NotStored
SrcAt(src, m, v, i) ==
    CASE src.kind = "dense"   -> src.vals[i]
      [] src.kind = "foreign" -> src.vals[i]
      [] src.kind = "column"  -> At(m, v, src.j, i)
      [] src.kind = "self"    -> At(m, v, src.j, i)
      [] src.kind = "sparse"  -> IF src.vals[i] = NotStored THEN 0 ELSE src.vals[i]
      [] src.kind = "smult"   -> IF src.vals[i] = NotStored THEN 0
                                 ELSE Mul(src.vals[i], At(m, v, src.j, i))
      [] src.kind = "scaled"  -> Mul(At(m, v, src.j, i), src.vals[i])
      [] src.kind = "divided" -> Div(At(m, v, src.j, i), src.vals[i])

\* canAlias( &matrix_ ) of the source: a view on the same matrix, or an
\* expression with such an operand, may alias; a vector that owns its
\* elements, or a view on another matrix, does not.
canAlias(src) == src.kind \in {"column", "self", "smult", "scaled", "divided"}

\* Construction of a temporary from the source ( tmp( right ) ): a vector that
\* owns the values the source has now. A sparse temporary stores what the
\* source stores.
Materialize(src, m, v) ==
    IF IsSparseVector(src)
    THEN SparseSrc(src.n, [i \in Idx(src.n) |->
             IF src.vals[i] = NotStored THEN NotStored ELSE SrcAt(src, m, v, i)])
    ELSE DenseSrc(src.n, [i \in Idx(src.n) |-> SrcAt(src, m, v, i)])

\* Construction of a dense temporary of the column's ResultType.
MaterializeDense(src, m, v) ==
    DenseSrc(src.n, [i \in Idx(src.n) |-> SrcAt(src, m, v, i)])

\* ------------------------------------------------------------ size_t masks
\* Number of bits of size_t in the model.
SizeWidth == 8

RECURSIVE Pow2(_)
Pow2(k) == IF k = 0 THEN 1 ELSE 2 * Pow2(k - 1)

\* size_t(-k): the unsigned value of the negative constant.
NegSizeT(k) == Pow2(SizeWidth) - k

RECURSIVE BitAnd(_, _)
BitAnd(a, b) ==
    IF a = 0 \/ b = 0 THEN 0
    ELSE (a % 2) * (b % 2) + 2 * BitAnd(a \div 2, b \div 2)

\* ----------------------------------------------------------------- kernels
\* The element operation of the four assignment kernels.
Combine(op, old, x) ==
    CASE op = "assign" -> x
      [] op = "add"    -> Add(old, x)
      [] op = "sub"    -> Sub(old, x)
      [] op = "mult"   -> Mul(old, x)

\* One statement  matrix_(i,col_) op= (~rhs)[i]  of a kernel: the source
\* element is read when the statement runs.
Step(op, m, v, c, src, i) ==
    Set(m, v, c, i, Combine(op, At(m, v, c, i), SrcAt(src, m, v, i)))

\* The scalar dense kernels: a loop unrolled by two and one tail statement.
DenseKernel_noTail(op, m, v, c, src) ==
    LET ipos == BitAnd(src.n, NegSizeT(2))
        RECURSIVE loop(_, _)
        loop(mm, i) ==
            IF i < ipos
            THEN loop(Step(op, Step(op, mm, v, c, src, i), v, c, src, i + 1), i + 2)
            ELSE mm
    IN  loop(m, 0)
DenseKernel(op, m, v, c, src) ==
    LET n == src.n
        ipos == BitAnd(n, NegSizeT(2))
        RECURSIVE loop(_, _)
        loop(mm, i) ==
            IF i < ipos
            THEN loop(Step(op, Step(op, mm, v, c, src, i), v, c, src, i + 1), i + 2)
            ELSE mm
        m1 == loop(m, 0)
    IN  IF ipos < n THEN Step(op, m1, v, c, src, ipos) ELSE m1

\* The stored indices of a sparse source in iteration order (ascending).
RECURSIVE StoredFrom(_, _)
StoredFrom(src, i) ==
    IF i >= src.n THEN <<>>
    ELSE IF src.vals[i] # NotStored THEN <<i>> \o StoredFrom(src, i + 1)
    ELSE StoredFrom(src, i + 1)
Stored(src) == StoredFrom(src, 0)

\* The sparse kernels: one statement per stored element, in iteration order.
SparseKernel(op, m, v, c, src) ==
    LET st == Stored(src)
        RECURSIVE loop(_, _)
        loop(mm, p) ==
            IF p <= Len(st) THEN loop(Step(op, mm, v, c, src, st[p]), p + 1) ELSE mm
    IN  loop(m, 1)

assign_accumulates(m, v, c, src) ==
    IF IsSparseVector(src) THEN SparseKernel("add", m, v, c, src)
    ELSE DenseKernel("add", m, v, c, src)
assign(m, v, c, src) ==
    IF IsSparseVector(src) THEN SparseKernel("assign", m, v, c, src)
    ELSE DenseKernel("assign", m, v, c, src)

addAssign_overwrites(m, v, c, src) ==
    IF IsSparseVector(src) THEN SparseKernel("assign", m, v, c, src)
    ELSE DenseKernel("add", m, v, c, src)
addAssign(m, v, c, src) ==
    IF IsSparseVector(src) THEN SparseKernel("add", m, v, c, src)
    ELSE DenseKernel("add", m, v, c, src)

subAssign(m, v, c, src) ==
    IF IsSparseVector(src) THEN SparseKernel("sub", m, v, c, src)
    ELSE DenseKernel("sub", m, v, c, src)

\* multAssign of a dense vector.
multAssign(m, v, c, src) == DenseKernel("mult", m, v, c, src)

\* reset(): every element of the column gets the default value
\* ( matrix_.reset( col_ ), or the loop of clear() in the row-major case ).
reset_fromOne(m, v, c, n) ==
    LET RECURSIVE loop(_, _)
        loop(mm, i) == IF i < n THEN loop(Set(mm, v, c, i, 0), i + 1) ELSE mm
    IN  loop(m, 1)
reset(m, v, c, n) ==
    LET RECURSIVE loop(_, _)
        loop(mm, i) == IF i < n THEN loop(Set(mm, v, c, i, 0), i + 1) ELSE mm
    IN  loop(m, 0)

\* -------------------------------------------------------- invariant checker
\* lowerBound( k ) of a sparse vector: the position (from 1) in Stored(src) of
\* the first stored element with index >= k, Len+1 ( end() ) if there is none.
lowerBound_afterKey(src, k) ==
    LET st == Stored(src)
        RECURSIVE find(_)
        find(p) == IF p <= Len(st) /\ st[p] <= k THEN find(p + 1) ELSE p
    IN  find(1)
lowerBound(src, k) ==
    LET st == Stored(src)
        RECURSIVE find(_)
        find(p) == IF p <= Len(st) /\ st[p] < k THEN find(p + 1) ELSE p
    IN  find(1)

\* The loop of a sparse check over the positions from .. to-1 of the stored
\* elements: it returns at the first element that is not default (on a
\* diagonal matrix: and whose index is not the column). The result and the
\* indices of the elements the loop has visited.
sparseScan(src, m, v, c, from, to, diag) ==
    LET st == Stored(src)
        RECURSIVE loop(_, _)
        loop(p, seen) ==
            IF p >= to THEN [ok |-> TRUE, visited |-> seen]
            ELSE IF (diag => st[p] # c) /\ ~isDefaultElem(SrcAt(src, m, v, st[p]))
            THEN [ok |-> FALSE, visited |-> seen \cup {st[p]}]
            ELSE loop(p + 1, seen \cup {st[p]})
    IN  loop(from, {})

\* Lower (not diagonal) matrix, dense vector.
preservesInvariantLowerDense_inclDiag(c, n, src, m, v) ==
    \A i \in 0 .. c : i < n => isDefaultElem(SrcAt(src, m, v, i))
preservesInvariantLowerDense(c, n, src, m, v) ==
    \A i \in 0 .. (c - 1) : isDefaultElem(SrcAt(src, m, v, i))

\* Lower (not diagonal) matrix, sparse vector: begin() .. lowerBound( col_ ).
scanLowerSparse(c, n, src, m, v) == sparseScan(src, m, v, c, 1, lowerBound(src, c), FALSE)
preservesInvariantLowerSparse(c, n, src, m, v) == scanLowerSparse(c, n, src, m, v).ok

\* Upper (not diagonal) matrix, dense vector.
preservesInvariantUpperDense(c, n, src, m, v) ==
    \A i \in (c + 1) .. (size(n) - 1) : isDefaultElem(SrcAt(src, m, v, i))

\* Upper (not diagonal) matrix, sparse vector: lowerBound( col_+1 ) .. end().
preservesInvariantUpperSparse_fromCol(c, n, src, m, v) ==
    LET st == Stored(src)
    IN  \A p \in lowerBound(src, c) .. Len(st) : isDefaultElem(SrcAt(src, m, v, st[p]))
scanUpperSparse(c, n, src, m, v) ==
    sparseScan(src, m, v, c, lowerBound(src, c + 1), Len(Stored(src)) + 1, FALSE)
preservesInvariantUpperSparse(c, n, src, m, v) == scanUpperSparse(c, n, src, m, v).ok

\* Diagonal matrix, dense vector.
preservesInvariantDiagDense_lowerOnly(c, n, src, m, v) ==
    \A i \in 0 .. (c - 1) : isDefaultElem(SrcAt(src, m, v, i))
preservesInvariantDiagDense(c, n, src, m, v) ==
    /\ \A i \in 0 .. (c - 1) : isDefaultElem(SrcAt(src, m, v, i))
    /\ \A i \in (c + 1) .. (size(n) - 1) : isDefaultElem(SrcAt(src, m, v, i))

\* Diagonal matrix, sparse vector.
scanDiagSparse(c, n, src, m, v) ==
    sparseScan(src, m, v, c, 1, Len(Stored(src)) + 1, TRUE)
preservesInvariantDiagSparse(c, n, src, m, v) == scanDiagSparse(c, n, src, m, v).ok

\* Overload resolution of preservesInvariant( matrix_, right ).
preservesInvariant(cat, c, n, src, m, v) ==
    CASE ~IsRestricted(cat) -> TRUE
      [] cat = "Lower" ->
            IF IsSparseVector(src) THEN preservesInvariantLowerSparse(c, n, src, m, v)
            ELSE preservesInvariantLowerDense(c, n, src, m, v)
      [] cat = "Upper" ->
            IF IsSparseVector(src) THEN preservesInvariantUpperSparse(c, n, src, m, v)
            ELSE preservesInvariantUpperDense(c, n, src, m, v)
      [] cat = "Diagonal" ->
            IF IsSparseVector(src) THEN preservesInvariantDiagSparse(c, n, src, m, v)
            ELSE preservesInvariantDiagDense(c, n, src, m, v)

\* ------------------------------------------------------ assignment operators
\* Each operator yields the matrix it leaves and the error it throws, if any.
Ok(m) == [m |-> m, err |-> "none"]
Throw(m, e) == [m |-> m, err |-> e]

\* The size check that opens every vector assignment operator.
sizeMismatch(n, src) == size(n) # src.n

\* The matrix as operator=( const Vector<VT,false>& rhs ) has it when the test
\* (~rhs).canAlias( &matrix_ ) runs and the temporary is built: the primary
\* template and the symmetric specialization have by then reset the column
\* for a sparse source, the general row-major specialization has written
\* nothing.
atAliasStage(m, v, c, n, src) ==
    IF v # "RM" /\ IsSparseVector(src) THEN reset(m, v, c, n) ELSE m

\* operator=( const Vector<VT,false>& rhs )
opAssign_resetBeforeSizeCheck(m, v, cat, c, n, src) ==
    LET m0 == IF IsSparseVector(src) THEN reset(m, v, c, n) ELSE m
    IN  IF sizeMismatch(n, src) THEN Throw(m0, "SizeMismatch")
        ELSE IF ~preservesInvariant(cat, c, n, src, m, v) THEN Throw(m, "InvariantViolation")
        ELSE IF canAlias(src) THEN Ok(assign(m, v, c, MaterializeDense(src, m, v)))
        ELSE Ok(assign(m0, v, c, src))
opAssign_noReset(m, v, cat, c, n, src) ==
    IF sizeMismatch(n, src) THEN Throw(m, "SizeMismatch")
    ELSE IF ~preservesInvariant(cat, c, n, src, m, v) THEN Throw(m, "InvariantViolation")
    ELSE IF canAlias(src) THEN Ok(assign(m, v, c, MaterializeDense(src, m, v)))
    ELSE Ok(assign(m, v, c, src))
opAssign(m, v, cat, c, n, src) ==
    IF sizeMismatch(n, src) THEN Throw(m, "SizeMismatch")
    ELSE IF ~preservesInvariant(cat, c, n, src, m, v) THEN Throw(m, "InvariantViolation")
    ELSE IF v = "RM"
    THEN IF canAlias(src)
         THEN Ok(assign(m, v, c, MaterializeDense(src, m, v)))
         ELSE Ok(assign(IF IsSparseVector(src) THEN reset(m, v, c, n) ELSE m, v, c, src))
    ELSE LET m1 == atAliasStage(m, v, c, n, src)
         IN  IF canAlias(src)
             THEN Ok(assign(m1, v, c, Materialize(src, m1, v)))
             ELSE Ok(assign(m1, v, c, src))

\* operator+=( const Vector<VT,false>& rhs )
opAddAssign_unchecked(m, v, cat, c, n, src) ==
    IF sizeMismatch(n, src) THEN Throw(m, "SizeMismatch")
    ELSE IF canAlias(src) THEN Ok(addAssign(m, v, c, Materialize(src, m, v)))
    ELSE Ok(addAssign(m, v, c, src))
opAddAssign(m, v, cat, c, n, src) ==
    IF sizeMismatch(n, src) THEN Throw(m, "SizeMismatch")
    ELSE IF ~preservesInvariant(cat, c, n, src, m, v) THEN Throw(m, "InvariantViolation")
    ELSE IF canAlias(src) THEN Ok(addAssign(m, v, c, Materialize(src, m, v)))
    ELSE Ok(addAssign(m, v, c, src))

\* operator-=( const Vector<VT,false>& rhs )
opSubAssign(m, v, cat, c, n, src) ==
    IF sizeMismatch(n, src) THEN Throw(m, "SizeMismatch")
    ELSE IF ~preservesInvariant(cat, c, n, src, m, v) THEN Throw(m, "InvariantViolation")
    ELSE IF canAlias(src) THEN Ok(subAssign(m, v, c, Materialize(src, m, v)))
    ELSE Ok(subAssign(m, v, c, src))

\* The temporary  tmp( *this * (~rhs) )  of operator*=.
ProductTmp_sourceOnly(m, v, c, src) ==
    DenseSrc(src.n, [i \in Idx(src.n) |-> SrcAt(src, m, v, i)])
ProductTmp(m, v, c, src) ==
    DenseSrc(src.n, [i \in Idx(src.n) |-> Mul(At(m, v, c, i), SrcAt(src, m, v, i))])

\* operator*=( const Vector<VT,false>& rhs )
opMultAssign(m, v, cat, c, n, src) ==
    IF sizeMismatch(n, src) THEN Throw(m, "SizeMismatch")
    ELSE IF canAlias(src) \/ IsSparseVector(src)
    THEN Ok(assign(m, v, c, ProductTmp(m, v, c, src)))
    ELSE Ok(multAssign(m, v, c, src))

\* operator=( const DenseColumn& rhs )
opCopyAssign_resetFirst(m, v, cat, c, n, src) ==
    IF sizeMismatch(n, src) THEN Throw(m, "SizeMismatch")
    ELSE IF ~preservesInvariant(cat, c, n, src, m, v) THEN Throw(m, "InvariantViolation")
    ELSE Ok(assign(reset(m, v, c, n), v, c, src))
opCopyAssign(m, v, cat, c, n, src) ==
    IF src.kind = "self" THEN Ok(m)
    ELSE IF sizeMismatch(n, src) THEN Throw(m, "SizeMismatch")
    ELSE IF ~preservesInvariant(cat, c, n, src, m, v) THEN Throw(m, "InvariantViolation")
    ELSE Ok(assign(m, v, c, src))

\* multAssign( const SparseVector<VT,false>& rhs ): the column is copied to a
\* temporary, reset, and the products are written at the stored indices.
multAssignSparse_resetFirst(m, v, c, src) ==
    LET m0 == reset(m, v, c, src.n)
        tmp == [i \in Idx(src.n) |-> At(m0, v, c, i)]
        st == Stored(src)
        RECURSIVE loop(_, _)
        loop(mm, p) ==
            IF p <= Len(st)
            THEN loop(Set(mm, v, c, st[p], Mul(tmp[st[p]], SrcAt(src, mm, v, st[p]))), p + 1)
            ELSE mm
    IN  loop(m0, 1)
multAssignSparse(m, v, c, src) ==
    LET tmp == [i \in Idx(src.n) |-> At(m, v, c, i)]
        st == Stored(src)
        RECURSIVE loop(_, _)
        loop(mm, p) ==
            IF p <= Len(st)
            THEN loop(Set(mm, v, c, st[p], Mul(tmp[st[p]], SrcAt(src, mm, v, st[p]))), p + 1)
            ELSE mm
    IN  loop(reset(m, v, c, src.n), 1)

\* operator=( const ElementType& rhs ): the index range the loop runs over.
scalarBegin_zero(v, cat, c) == 0
scalarBegin(v, cat, c) ==
    IF v = "SYM" THEN (IF IsUpper(cat) THEN c ELSE 0)
    ELSE (IF IsLower(cat) THEN c ELSE 0)
scalarEnd_size(v, cat, c, n) == size(n)
scalarEnd(v, cat, c, n) ==
    IF v = "SYM" THEN (IF IsLower(cat) THEN c + 1 ELSE size(n))
    ELSE (IF IsUpper(cat) THEN c + 1 ELSE size(n))

\* operator=( const ElementType& rhs )
opScalarAssign(m, v, cat, c, n, x) ==
    LET RECURSIVE loop(_, _)
        loop(mm, i) ==
            IF i < scalarEnd(v, cat, c, n) THEN loop(Set(mm, v, c, i, x), i + 1) ELSE mm
    IN  Ok(loop(m, scalarBegin(v, cat, c)))

\* scale( const Other& scalar )
scale(m, v, c, n, x) ==
    LET RECURSIVE loop(_, _)
        loop(mm, i) ==
            IF i < size(n) THEN loop(Set(mm, v, c, i, Mul(At(mm, v, c, i), x)), i + 1)
            ELSE mm
    IN  loop(m, 0)

\* operator*=( Other rhs ): the general row-major specialization multiplies
\* the elements in place, the other two assign the expression (*this) * rhs.
opScalarMult_allColumns(m, v, cat, c, n, x) ==
    Ok([rc \in Cells(n) |-> Mul(m[rc], x)])
opScalarMult(m, v, cat, c, n, x) ==
    IF v = "RM" THEN Ok(scale(m, v, c, n, x))
    ELSE opAssign(m, v, cat, c, n, ScaledSrc(n, c, x))

\* operator/=( Other rhs ) for a divisor that is not zero (integral elements).
opScalarDiv(m, v, cat, c, n, x) ==
    IF v = "RM"
    THEN LET RECURSIVE loop(_, _)
             loop(mm, i) ==
                 IF i < size(n) THEN loop(Set(mm, v, c, i, Div(At(mm, v, c, i), x)), i + 1)
                 ELSE mm
         IN  Ok(loop(m, 0))
    ELSE opAssign(m, v, cat, c, n, DividedSrc(n, c, x))

\* isDefault( const DenseColumn& column ): stops at the first non-default element.
isDefault(m, v, c, n) ==
    LET RECURSIVE loop(_)
        loop(i) ==
            IF i < size(n)
            THEN IF ~isDefaultElem(At(m, v, c, i)) THEN FALSE ELSE loop(i + 1)
            ELSE TRUE
    IN  loop(0)

\* A view as isSame sees it: the matrix it refers to and its column index.
\* "A" is the matrix of the model's view, "B" another matrix of the same type.
ViewRef(mat, c) == [matrix |-> mat, col |-> c]
RefOf(src, c) ==
    CASE src.kind = "self"    -> ViewRef("A", c)
      [] src.kind = "column"  -> ViewRef("A", src.j)
      [] src.kind = "foreign" -> ViewRef("B", src.j)

\* isSame of two matrices: the same object.
isSameMatrix(a, b) == a = b

\* isSame( const DenseColumn& a, const DenseColumn& b )
isSame_columnOnly(a, b) == a.col = b.col
isSame(a, b) == isSameMatrix(a.matrix, b.matrix) /\ (a.col = b.col)

\* ---------------------------------------------------------- initial states
Min(a, b) == IF a < b THEN a ELSE b
Max(a, b) == IF a < b THEN b ELSE a

\* A matrix filled with non-default values wherever its type admits them.
FillValue(i, j) == ((i + 2 * j) % (Modulus - 1)) + 1
BaseMatrix(v, cat, n) ==
    [cell \in Cells(n) |->
        IF ~Admissible(cat, cell[1], cell[2]) THEN 0
        ELSE IF v = "SYM" THEN FillValue(Min(cell[1], cell[2]), Max(cell[1], cell[2]))
        ELSE FillValue(cell[1], cell[2])]

\* The column c0 of m overwritten with the elements x.
WithColumn(m, v, c0, n, x) ==
    LET RECURSIVE loop(_, _)
        loop(mm, i) == IF i < n THEN loop(Set(mm, v, c0, i, x[i]), i + 1) ELSE mm
    IN  loop(m, 0)

\* The matrices a run starts from: the filled matrix with one column replaced
\* by arbitrary elements, as far as the matrix type admits them.
InitMatrices(v, cat, n) ==
    { m \in { WithColumn(BaseMatrix(v, cat, n), v, c0, n, x) :
                  c0 \in Idx(n), x \in [Idx(n) -> Val] } \cup {BaseMatrix(v, cat, n)} :
        WellFormed(m, n, v, cat) }

Init ==
    /\ variant \in Variants
    /\ category \in Categories
    /\ ValidCombo(variant, category)
    /\ rows \in 0 .. MaxDim
    /\ matrix_ \in InitMatrices(variant, category, rows)
    /\ col_ = NoView
    /\ pc = "init"
    /\ last = NoOp
    /\ steps = 0

\* ------------------------------------------------------------------ inputs
\* What a sparse vector holds at an index: nothing, a stored default value, a
\* stored one, the largest stored value.
SparseVals == {NotStored, 0, 1, Modulus - 1}

\* Vectors of a size other than the column's.
WrongSizes(n) == {k \in {n - 1, n + 1} : k >= 0}

DenseSources(n) ==
    { DenseSrc(n, x) : x \in [Idx(n) -> Val] }
    \cup { DenseSrc(k, [i \in Idx(k) |-> x]) : k \in WrongSizes(n), x \in Val }

SparseSources(n) ==
    { SparseSrc(n, x) : x \in [Idx(n) -> SparseVals] }
    \cup { SparseSrc(k, [i \in Idx(k) |-> x]) : k \in WrongSizes(n), x \in SparseVals }

ColumnSources(n) == { ColumnSrc(n, j) : j \in Idx(n) }

\* s * column(matrix_, j) with s a sparse vector of ones. The expression is
\* offered to unrestricted matrices, where the operators bind it by reference.
SMultSources(n, cat) ==
    IF IsRestricted(cat) THEN {}
    ELSE { SMultSrc(n, x, j) : x \in [Idx(n) -> {NotStored, 1}], j \in Idx(n) }

VectorSources(n, cat) ==
    DenseSources(n) \cup SparseSources(n) \cup ColumnSources(n) \cup SMultSources(n, cat)

\* Right-hand sides of the copy assignment: the view itself, another view on
\* the same matrix, a view on another matrix of the same type.
ViewSources(n, c, cat) ==
    {SelfSrc(n, c)} \cup ColumnSources(n)
    \cup { ForeignSrc(n, x) : x \in { y \in [Idx(n) -> Val] :
               \A i \in Idx(n) : y[i] # 0 => \E j \in Idx(n) : Admissible(cat, i, j) } }
    \cup { ForeignSrc(k, [i \in Idx(k) |-> 0]) : k \in WrongSizes(n) }

\* ----------------------------------------------------------------- actions
Finish(op, src, res) ==
    /\ matrix_' = res.m
    /\ last' = [op |-> op, src |-> src, err |-> res.err, old |-> matrix_, ret |-> FALSE]
    /\ pc' = "done"
    /\ steps' = steps + 1
    /\ UNCHANGED <<variant, category, rows, col_>>

\* The constructor's check  matrix_.columns() <= index.
invalidIndex_offByOne(columns, index) == columns < index
invalidIndex_never(columns, index) == FALSE
invalidIndex(columns, index) == columns <= index

\* DenseColumn( MT& matrix, size_t index )
Construct ==
    /\ pc = "init"
    /\ \E index \in 0 .. (rows + 1) :
        IF invalidIndex(rows, index)
        THEN /\ pc' = "failed"
             /\ last' = [op |-> "construct", src |-> [NoSrc EXCEPT !.j = index],
                         err |-> "InvalidIndex", old |-> matrix_, ret |-> FALSE]
             /\ UNCHANGED <<variant, category, rows, matrix_, col_, steps>>
        ELSE /\ pc' = "ready"
             /\ col_' = index
             /\ last' = [op |-> "construct", src |-> [NoSrc EXCEPT !.j = index],
                         err |-> "none", old |-> matrix_, ret |-> FALSE]
             /\ UNCHANGED <<variant, category, rows, matrix_, steps>>

Assign ==
    /\ pc = "ready"
    /\ \E src \in VectorSources(rows, category) :
        Finish("=", src, opAssign(matrix_, variant, category, col_, rows, src))

AddAssign ==
    /\ pc = "ready"
    /\ \E src \in VectorSources(rows, category) :
        Finish("+=", src, opAddAssign(matrix_, variant, category, col_, rows, src))

SubAssign ==
    /\ pc = "ready"
    /\ \E src \in VectorSources(rows, category) :
        Finish("-=", src, opSubAssign(matrix_, variant, category, col_, rows, src))

MultAssign ==
    /\ pc = "ready"
    /\ \E src \in VectorSources(rows, category) :
        Finish("*=", src, opMultAssign(matrix_, variant, category, col_, rows, src))

CopyAssign ==
    /\ pc = "ready"
    /\ \E src \in ViewSources(rows, col_, category) :
        Finish("copy", src, opCopyAssign(matrix_, variant, category, col_, rows, src))

\* The operand of an element write, of a homogeneous assignment or of a
\* scaling, as a record of the shape of a source: the value x in vals[0], the
\* view index in j; for a write to the matrix itself the row in n, the column in j.
ElemSrc(i, x) == [kind |-> "elem", n |-> 1, vals |-> [k \in Idx(1) |-> x], j |-> i]
CellSrc(i, j, x) == [kind |-> "cell", n |-> i, vals |-> [k \in Idx(1) |-> x], j |-> j]
ScalarSrc(x) == [kind |-> "scalar", n |-> 1, vals |-> [k \in Idx(1) |-> x], j |-> 0]

\* An operation that reads only: the matrix stays, the result is recorded.
FinishQuery(op, src, val) ==
    /\ last' = [op |-> op, src |-> src, err |-> "none", old |-> matrix_, ret |-> val]
    /\ pc' = "done"
    /\ steps' = steps + 1
    /\ UNCHANGED <<variant, category, rows, matrix_, col_>>

\* view[i] = x: a write through the reference operator[] returns. The values
\* offered are those the matrix type stores at the element.
ElementWrite ==
    /\ pc = "ready"
    /\ \E i \in Idx(rows), x \in Val :
        /\ Admissible(category, i, col_) \/ x = 0
        /\ Finish("write", ElemSrc(i, x), Ok(Set(matrix_, variant, col_, i, x)))

\* matrix(i,j) = x: a write to the matrix that does not go through the view.
MatrixWrite ==
    /\ pc = "ready"
    /\ \E i \in Idx(rows), j \in Idx(rows), x \in Val :
        /\ Admissible(category, i, j) \/ x = 0
        /\ Finish("matrix", CellSrc(i, j, x),
                  Ok(MatrixSet(matrix_, variant, <<i, j>>, x)))

ScalarAssign ==
    /\ pc = "ready"
    /\ \E x \in Val :
        Finish("scalar", ScalarSrc(x),
               opScalarAssign(matrix_, variant, category, col_, rows, x))

Reset ==
    /\ pc = "ready"
    /\ Finish("reset", NoSrc, Ok(reset(matrix_, variant, col_, rows)))

Scale ==
    /\ pc = "ready"
    /\ \E x \in Val :
        Finish("scale", ScalarSrc(x), Ok(scale(matrix_, variant, col_, rows, x)))

IsDefault ==
    /\ pc = "ready"
    /\ FinishQuery("isDefault", NoSrc, isDefault(matrix_, variant, col_, rows))

\* isSame( view, b ) with b the view itself, a view on a column of the same
\* matrix, or a view on a column of another matrix, which holds the elements
\* of the view's column or default elements.
IsSame ==
    /\ pc = "ready"
    /\ \E b \in {SelfSrc(rows, col_)} \cup ColumnSources(rows)
                \cup { [ForeignSrc(rows, x) EXCEPT !.j = j] :
                          x \in {[i \in Idx(rows) |-> At(matrix_, variant, col_, i)],
                                 Zeros(rows)},
                          j \in Idx(rows) } :
        FinishQuery("isSame", b, isSame(ViewRef("A", col_), RefOf(b, col_)))

\* The kernel multAssign( SparseVector ), called with a sparse vector of the
\* view's size on a matrix that is not restricted.
MultAssignKernel ==
    /\ pc = "ready"
    /\ ~IsRestricted(category)
    /\ \E src \in { x \in SparseSources(rows) : x.n = size(rows) } :
        Finish("multAssign", src, Ok(multAssignSparse(matrix_, variant, col_, src)))

\* view *= x for a scalar x
ScalarMult ==
    /\ pc = "ready"
    /\ \E x \in Val :
        Finish("*=s", ScalarSrc(x), opScalarMult(matrix_, variant, category, col_, rows, x))

\* view /= x for a scalar x; BLAZE_USER_ASSERT( rhs != Other(0) ) is the
\* operator's precondition.
ScalarDiv ==
    /\ pc = "ready"
    /\ \E x \in Val \ {0} :
        Finish("/=s", ScalarSrc(x), opScalarDiv(matrix_, variant, category, col_, rows, x))

Next ==
    \/ Construct
    \/ Assign
    \/ AddAssign
    \/ SubAssign
    \/ MultAssign
    \/ CopyAssign

Spec == Init /\ [][Next]_vars

\* The element access, the homogeneous assignment, the utility functions and
\* the two ways to multiply the column by a vector, from the same states.
NextOps ==
    \/ Construct
    \/ ElementWrite
    \/ ScalarAssign
    \/ Reset
    \/ Scale
    \/ IsDefault
    \/ IsSame
    \/ MultAssign
    \/ MultAssignKernel

SpecOps == Init /\ [][NextOps]_vars

\* ------------------------------------------------- sequences of operations
\* Largest number of operations of one run of SpecSeq.
MaxSteps == 2

\* The vector assignment operator named op.
ApplyOp(op, m, v, cat, c, n, src) ==
    CASE op = "="    -> opAssign(m, v, cat, c, n, src)
      [] op = "+="   -> opAddAssign(m, v, cat, c, n, src)
      [] op = "-="   -> opSubAssign(m, v, cat, c, n, src)
      [] op = "*="   -> opMultAssign(m, v, cat, c, n, src)
      [] op = "copy" -> opCopyAssign(m, v, cat, c, n, src)

\* The right-hand sides of a run of several operations: a dense vector of
\* ones, a vector of another size, the columns of the matrix.
SeqSources(n) ==
    {DenseSrc(n, [i \in Idx(n) |-> 1]), DenseSrc(n + 1, [i \in Idx(n + 1) |-> 1])}
    \cup ColumnSources(n)
SeqViews(n, c) ==
    {SelfSrc(n, c), ForeignSrc(n, [i \in Idx(n) |-> 1]),
     ForeignSrc(n + 1, [i \in Idx(n + 1) |-> 0])}
    \cup ColumnSources(n)

\* view op src for one of the vector assignment operators.
VectorAssign ==
    /\ pc = "ready"
    /\ \E op \in {"=", "+=", "-=", "*="}, src \in SeqSources(rows) :
        Finish(op, src, ApplyOp(op, matrix_, variant, category, col_, rows, src))

\* view = other view
ViewAssign ==
    /\ pc = "ready"
    /\ \E src \in SeqViews(rows, col_) :
        Finish("copy", src, ApplyOp("copy", matrix_, variant, category, col_, rows, src))

\* Control returns to the caller, which goes on to use the view.
Resume ==
    /\ pc = "done"
    /\ steps < MaxSteps
    /\ pc' = "ready"
    /\ last' = NoOp
    /\ UNCHANGED <<variant, category, rows, matrix_, col_, steps>>

InitSeq ==
    /\ variant \in Variants
    /\ category \in Categories
    /\ ValidCombo(variant, category)
    /\ rows \in 0 .. MaxDim
    /\ matrix_ = BaseMatrix(variant, category, rows)
    /\ col_ = NoView
    /\ pc = "init"
    /\ last = NoOp
    /\ steps = 0

NextSeq ==
    \/ Construct
    \/ Resume
    \/ ElementWrite
    \/ MatrixWrite
    \/ ScalarAssign
    \/ Reset
    \/ Scale
    \/ VectorAssign
    \/ ViewAssign

SpecSeq == InitSeq /\ [][NextSeq]_vars

\* ------------------------------------------------ every mutating operation
\* One operation of any kind on a view of the matrix BaseMatrix.
NextFrame ==
    \/ Construct
    \/ ElementWrite
    \/ ScalarAssign
    \/ Assign
    \/ AddAssign
    \/ SubAssign
    \/ MultAssign
    \/ CopyAssign
    \/ ScalarMult
    \/ ScalarDiv
    \/ Scale
    \/ Reset

SpecFrame == InitSeq /\ [][NextFrame]_vars

\* ------------------------------------------------------ the kernels alone
\* Largest column length of a run of SpecKernel.
MaxLen == 17

\* The names of the four kernels.
KernelOps == {"assign", "add", "sub", "mult"}

\* Dense vectors of the view's size that own their elements.
KernelSources(n) ==
    {DenseSrc(n, [i \in Idx(n) |-> 1]), DenseSrc(n, [i \in Idx(n) |-> (i + 2) % Modulus])}

\* assign / addAssign / subAssign / multAssign( const DenseVector& ) in the
\* version without vectorization, called as smpAssign and its siblings call
\* them: with a vector of the view's size on a matrix that is not restricted.
ScalarKernel ==
    /\ pc = "ready"
    /\ \E op \in KernelOps, src \in KernelSources(rows) :
        Finish(op, src, Ok(DenseKernel(op, matrix_, variant, col_, src)))

\* The values of IT::size, the number of elements of one SIMD block.
SimdWidths == {1, 2, 4}

\* The configuration, scaled to the model: cacheSize in bytes and
\* sizeof(ElementType).
cacheSize == 96
sizeofElementType == 4

\* const size_t ipos( rows & size_t(-IT::size*4) )
simdEnd_unrolledByTwo(n, W) == BitAnd(n, NegSizeT(W * 2))
simdEnd(n, W) == BitAnd(n, NegSizeT(W * 4))

\* matrix_.store( i, col_, op( matrix_.load(i,col_), block ) ) with the block
\* loaded from the source at offset it: the W elements from i on, of which
\* those beyond the column's size are padding.
StoreBlock(op, m, v, c, src, i, it, W) ==
    LET block == [k \in 0 .. (W - 1) |->
                     IF it + k < src.n THEN SrcAt(src, m, v, it + k) ELSE 0]
        RECURSIVE loop(_, _)
        loop(mm, k) ==
            IF k < W /\ i + k < src.n
            THEN loop(Set(mm, v, c, i + k, Combine(op, At(m, v, c, i + k), block[k])), k + 1)
            ELSE mm
    IN  loop(m, 0)

\* One store of a vectorized kernel: the block is written, the source
\* iterator advances by IT::size, the store is recorded as <<i, it>>.
BlockStep(op, st, v, c, src, i, W) ==
    [st EXCEPT !.m = StoreBlock(op, st.m, v, c, src, i, st.it, W),
               !.it = st.it + W,
               !.stores = Append(st.stores, <<i, st.it>>)]

\* The vectorized kernels: a loop unrolled four times up to ipos and the
\* remainder loop.
VectorizedKernel(op, m, v, c, src, W) ==
    LET n == size(src.n)
        ipos == simdEnd(n, W)
        B(st, i) == BlockStep(op, st, v, c, src, i, W)
        RECURSIVE unrolled(_, _)
        unrolled(st, i) ==
            IF i < ipos
            THEN unrolled(B(B(B(B(st, i), i + W), i + W * 2), i + W * 3), i + W * 4)
            ELSE st
        RECURSIVE remainder(_, _)
        remainder(st, i) == IF i < n THEN remainder(B(st, i), i + W) ELSE st
    IN  remainder(unrolled([m |-> m, it |-> 0, stores |-> <<>>, W |-> W, ipos |-> ipos,
                            streamed |-> FALSE], 0), ipos)

\* The loop of streaming stores of the vectorized assign:
\* matrix_.stream( i, col_, (~rhs).load(i) ).
StreamKernel(m, v, c, src, W) ==
    LET n == size(src.n)
        RECURSIVE loop(_, _)
        loop(st, i) ==
            IF i < n
            THEN loop(BlockStep("assign", [st EXCEPT !.it = i], v, c, src, i, W), i + W)
            ELSE st
    IN  loop([m |-> m, it |-> 0, stores |-> <<>>, W |-> W, ipos |-> 0, streamed |-> TRUE], 0)

\* (~rhs).isAliased( this ) for a source that is a dense column: a view on the
\* same matrix and the same column. A vector that owns its elements is not
\* aliased.
isAliased(src, c) == src.kind \in {"column", "self"} /\ src.j = c

\* The test that selects the streaming stores.
useStreamingPath_ignoresAlias(useStreaming, n, aliased) ==
    useStreaming /\ n > cacheSize \div (sizeofElementType * 3)
useStreamingPath(useStreaming, n, aliased) ==
    useStreaming /\ n > cacheSize \div (sizeofElementType * 3) /\ ~aliased

\* assign( const DenseVector& ), vectorized.
vectorizedAssign(m, v, c, src, W, useStreaming) ==
    IF useStreamingPath(useStreaming, size(src.n), isAliased(src, c))
    THEN StreamKernel(m, v, c, src, W)
    ELSE VectorizedKernel("assign", m, v, c, src, W)

\* The end of a vectorized kernel: the matrix and what the kernel did.
FinishKernel(op, src, st, info) ==
    /\ matrix_' = st.m
    /\ last' = [op |-> op, src |-> src, err |-> "none", old |-> matrix_,
                ret |-> [W |-> st.W, ipos |-> st.ipos, stores |-> st.stores,
                         it |-> st.it, streamed |-> st.streamed, useStreaming |-> info]]
    /\ pc' = "done"
    /\ steps' = steps + 1
    /\ UNCHANGED <<variant, category, rows, col_>>

\* The sources of the vectorized assign: vectors that own their elements and
\* views on the columns of the matrix (the copy assignment passes them on).
SimdSources(n) == KernelSources(n) \cup ColumnSources(n)

\* assign( const DenseVector& ) in the vectorized version; the general
\* row-major specialization has none ( vectorizable = 0 ).
VectorizedAssign ==
    /\ pc = "ready"
    /\ variant # "RM"
    /\ \E src \in {x \in SimdSources(rows) : x.n = size(rows)}, W \in SimdWidths,
          useStreaming \in BOOLEAN :
        FinishKernel("vassign", src,
                     vectorizedAssign(matrix_, variant, col_, src, W, useStreaming),
                     useStreaming)

\* addAssign, subAssign, multAssign( const DenseVector& ), vectorized.
VectorizedCompound ==
    /\ pc = "ready"
    /\ variant # "RM"
    /\ \E op \in {"add", "sub", "mult"}, src \in KernelSources(rows), W \in SimdWidths :
        FinishKernel("v" \o op, src,
                     VectorizedKernel(op, matrix_, variant, col_, src, W), FALSE)

InitKernel ==
    /\ variant \in Variants
    /\ category = "Unconstrained"
    /\ rows \in 0 .. MaxLen
    /\ matrix_ = BaseMatrix(variant, category, rows)
    /\ col_ = NoView
    /\ pc = "init"
    /\ last = NoOp
    /\ steps = 0

NextKernel ==
    \/ Construct
    \/ ScalarKernel
    \/ VectorizedAssign
    \/ VectorizedCompound

SpecKernel == InitKernel /\ [][NextKernel]_vars

\* ------------------------------------------------------- ColumnIterator
\* ColumnIterator( MatrixType& matrix, size_t row, size_t column ): the
\* iterator of the general row-major specialization. The matrix is a pointer;
\* "A" is the view's matrix, "B" another one.
ColumnIterator(mat, row, column) == [matrix |-> mat, row |-> row, column |-> column]

ItEqual(a, b) == (a.matrix = b.matrix) /\ (a.row = b.row) /\ (a.column = b.column)
ItNotEqual(a, b) == ~ItEqual(a, b)
ItLess_anyColumn(a, b) == (a.matrix = b.matrix) /\ (a.row < b.row)
ItLess(a, b) == (a.matrix = b.matrix) /\ (a.row < b.row) /\ (a.column = b.column)
ItGreater(a, b) == (a.matrix = b.matrix) /\ (a.row > b.row) /\ (a.column = b.column)
ItLessEqual(a, b) == (a.matrix = b.matrix) /\ (a.row <= b.row) /\ (a.column = b.column)
ItGreaterEqual(a, b) == (a.matrix = b.matrix) /\ (a.row >= b.row) /\ (a.column = b.column)

\* operator++, operator+( it, inc ), operator-( rhs ), operator*
ItIncrement(it) == [it EXCEPT !.row = it.row + 1]
ItPlus(it, inc) == ColumnIterator(it.matrix, it.row + inc, it.column)
ItDifference(a, b) == a.row - b.row
ItDeref_transposed(m, it) == m[<<it.column, it.row>>]
ItDeref(m, it) == m[<<it.row, it.column>>]

\* begin() and end() of a view on column c of a matrix with n rows.
begin(c) == ColumnIterator("A", 0, c)
end(n, c) == ColumnIterator("A", size(n), c)

\* The six comparisons of two iterators a and b: a is begin() + k of the view,
\* b an iterator over a column of the same or of another matrix.
Compare ==
    /\ pc = "ready"
    /\ \E k \in 0 .. rows, mat \in {"A", "B"}, r \in 0 .. rows, j \in Idx(rows) :
        LET a == ItPlus(begin(col_), k)
            b == ColumnIterator(mat, r, j)
        IN  FinishQuery("compare", NoSrc,
                [a |-> a, b |-> b,
                 eq |-> ItEqual(a, b), ne |-> ItNotEqual(a, b),
                 lt |-> ItLess(a, b), gt |-> ItGreater(a, b),
                 le |-> ItLessEqual(a, b), ge |-> ItGreaterEqual(a, b)])

\* it = view.begin(): a pass over the column starts.
Begin ==
    /\ pc = "ready"
    /\ pc' = "iter"
    /\ last' = [op |-> "iterate", src |-> NoSrc, err |-> "none", old |-> matrix_,
                ret |-> [it |-> begin(col_), seen |-> <<>>, incs |-> 0, prev |-> <<>>]]
    /\ UNCHANGED <<variant, category, rows, matrix_, col_, steps>>

\* The body of  for( ; it != view.end(); ++it ) use( *it ).
Advance ==
    /\ pc = "iter"
    /\ ItNotEqual(last.ret.it, end(rows, col_))
    /\ last' = [last EXCEPT !.ret.seen = Append(@, ItDeref(matrix_, last.ret.it)),
                            !.ret.it = ItIncrement(@),
                            !.ret.incs = @ + 1]
    /\ UNCHANGED <<variant, category, rows, matrix_, col_, pc, steps>>

\* The loop has ended and begin() is called again.
Restart ==
    /\ pc = "iter"
    /\ ~ItNotEqual(last.ret.it, end(rows, col_))
    /\ steps < MaxSteps
    /\ last' = [last EXCEPT !.ret = [it |-> begin(col_), seen |-> <<>>, incs |-> 0,
                                     prev |-> last.ret.seen]]
    /\ steps' = steps + 1
    /\ UNCHANGED <<variant, category, rows, matrix_, col_, pc>>

InitIter ==
    /\ variant = "RM"
    /\ category \in Categories
    /\ rows \in 0 .. MaxDim
    /\ matrix_ = BaseMatrix(variant, category, rows)
    /\ col_ = NoView
    /\ pc = "init"
    /\ last = NoOp
    /\ steps = 0

NextIter ==
    \/ Construct
    \/ Compare
    \/ Begin
    \/ Advance
    \/ Restart

SpecIter == InitIter /\ [][NextIter]_vars

\* ------------------------------------------- two assignments at a time
\* Two threads run the kernel assign( const DenseVector& ) through views on
\* two columns of the matrix: thread 1 through the view on col_, thread 2
\* through a view on another column. A statement
\* matrix_(i,col_) = (~rhs)[i]  is a read of the source element into a
\* temporary and a write of the temporary to the matrix element.

\* The temporary of a thread's statement: local to the thread.
RegOf_shared(t) == 1
RegOf(t) == t

\* The two calls start.
Fork ==
    /\ pc = "ready"
    /\ \E c2 \in Idx(rows) \ {col_}, s1 \in KernelSources(rows), s2 \in KernelSources(rows) :
        last' = [op |-> "concurrent", src |-> NoSrc, err |-> "none", old |-> matrix_,
                 ret |-> [c |-> <<col_, c2>>, src |-> <<s1, s2>>, i |-> <<0, 0>>,
                          phase |-> <<"read", "read">>, reg |-> <<0, 0>>]]
    /\ pc' = "conc"
    /\ UNCHANGED <<variant, category, rows, matrix_, col_, steps>>

\* A thread reads the next element of its source.
ReadStep ==
    /\ pc = "conc"
    /\ \E t \in {1, 2} :
        LET r == last.ret
        IN  /\ r.phase[t] = "read"
            /\ r.i[t] < size(r.src[t].n)
            /\ last' = [last EXCEPT !.ret.reg[RegOf(t)] = SrcAt(r.src[t], matrix_, variant, r.i[t]),
                                    !.ret.phase[t] = "write"]
    /\ UNCHANGED <<variant, category, rows, matrix_, col_, pc, steps>>

\* A thread writes the element of its column and goes on to the next index.
WriteStep ==
    /\ pc = "conc"
    /\ \E t \in {1, 2} :
        LET r == last.ret
        IN  /\ r.phase[t] = "write"
            /\ matrix_' = Set(matrix_, variant, r.c[t], r.i[t], r.reg[RegOf(t)])
            /\ last' = [last EXCEPT !.ret.i[t] = @ + 1, !.ret.phase[t] = "read"]
    /\ UNCHANGED <<variant, category, rows, col_, pc, steps>>

\* Both calls have returned.
Join ==
    /\ pc = "conc"
    /\ \A t \in {1, 2} : last.ret.phase[t] = "read" /\ last.ret.i[t] = size(last.ret.src[t].n)
    /\ pc' = "done"
    /\ steps' = steps + 1
    /\ UNCHANGED <<variant, category, rows, matrix_, col_, last>>

InitConc ==
    /\ variant \in {"CM", "RM"}
    /\ category = "Unconstrained"
    /\ rows \in 0 .. MaxDim
    /\ matrix_ = BaseMatrix(variant, category, rows)
    /\ col_ = NoView
    /\ pc = "init"
    /\ last = NoOp
    /\ steps = 0

NextConc ==
    \/ Construct
    \/ Fork
    \/ ReadStep
    \/ WriteStep
    \/ Join

SpecConc == InitConc /\ [][NextConc]_vars

TypeOK ==
    /\ variant \in Variants
    /\ category \in Categories
    /\ rows \in 0 .. MaxDim
    /\ matrix_ \in [Cells(rows) -> Val]
    /\ col_ \in {NoView} \cup Idx(rows)
    /\ pc \in {"init", "ready", "done", "failed", "iter", "conc"}
    /\ steps \in Nat

\* ================================================================== claims
Done(op) == pc = "done" /\ last.op = op
View(m, i) == At(m, variant, col_, i)
OldSrc(i) == SrcAt(last.src, last.old, variant, i)
Matching == last.src.n = rows

\* C1: round trip. After view = v for a dense vector v of the view's size on an
\* unrestricted matrix, in each specialization, view[i] is the value v[i] had
\* when the assignment started, for every i, whatever the column held.
C1_RoundTrip ==
    (Done("=") /\ category = "Unconstrained" /\ Matching
        /\ last.src.kind \in {"dense", "column"})
    => /\ last.err = "none"
       /\ \A i \in Idx(rows) : View(matrix_, i) = OldSrc(i)

C1_Witness ==
    /\ Done("=") /\ category = "Unconstrained" /\ Matching
    /\ last.src.kind = "dense" /\ rows = MaxDim
    /\ \A i \in Idx(rows) : View(last.old, i) # OldSrc(i)
    /\ \A i \in Idx(rows) : View(matrix_, i) = OldSrc(i)

\* C2: construction succeeds if and only if index < matrix.columns(); for every
\* index >= columns() (index = columns() and a matrix without columns included)
\* it fails with InvalidIndex and no view exists.
C2_ConstructIff ==
    (last.op = "construct")
    => /\ (last.err = "none") <=> (last.src.j < rows)
       /\ (last.src.j >= rows) => (last.err = "InvalidIndex" /\ pc = "failed" /\ col_ = NoView)
       /\ (last.src.j < rows) => (pc = "ready" /\ col_ = last.src.j)
       /\ matrix_ = last.old

C2_Witness ==
    /\ last.op = "construct" /\ pc = "failed"
    /\ last.src.j = rows /\ rows = 0
    /\ last.err = "InvalidIndex"

\* C3: a vector assignment (=, +=, -=, *=) or a copy assignment whose source has
\* another size than the view fails with SizeMismatch and leaves every element
\* of the matrix as it was: no write, and no reset, precedes the check.
VectorOps == {"=", "+=", "-=", "*="}
C3_SizeMismatch ==
    (pc = "done" /\ last.op \in VectorOps \cup {"copy"} /\ ~Matching)
    => /\ last.err = "SizeMismatch"
       /\ matrix_ = last.old

C3_Witness ==
    /\ Done("=") /\ ~Matching /\ last.src.kind = "sparse"
    /\ last.err = "SizeMismatch"
    /\ \E i \in Idx(rows) : View(last.old, i) # 0
    /\ matrix_ = last.old

\* C4: Lower matrix, view on column c, source of the view's size. A source
\* with a non-default element at an index < c makes the assignment fail with
\* InvariantViolation and leaves the whole matrix as it was; a source whose
\* elements at indices < c are all default is assigned, and the column then
\* holds the source's values.
C4_LowerAssign ==
    (Done("=") /\ category = "Lower" /\ Matching)
    => IF \E i \in 0 .. (col_ - 1) : OldSrc(i) # 0
       THEN last.err = "InvariantViolation" /\ matrix_ = last.old
       ELSE last.err = "none" /\ \A i \in Idx(rows) : View(matrix_, i) = OldSrc(i)

C4_Witness ==
    /\ Done("=") /\ category = "Lower" /\ Matching
    /\ col_ = 1 /\ OldSrc(0) # 0 /\ OldSrc(1) # 0
    /\ last.err = "InvariantViolation"

\* C5: Upper (not diagonal) matrix, view on column c. The invariant checker
\* answers 'preserved' for a source if and only if every source element at an
\* index > c is default (every source is accepted on the last column), and
\* the vector assignments that consult it (=, +=, -=) fail with
\* InvariantViolation exactly when it answers 'not preserved'.
C5_UpperChecker ==
    (pc = "done" /\ last.op \in {"=", "+=", "-="} /\ category = "Upper" /\ Matching)
    => LET tail == \A i \in (col_ + 1) .. (rows - 1) : OldSrc(i) = 0
       IN  /\ preservesInvariant("Upper", col_, rows, last.src, last.old, variant) <=> tail
           /\ (last.err = "InvariantViolation") <=> ~tail
           /\ (col_ = rows - 1) => last.err = "none"

C5_Witness ==
    /\ Done("=") /\ category = "Upper" /\ Matching
    /\ last.src.kind = "sparse"
    /\ col_ = 0 /\ rows = MaxDim
    /\ OldSrc(0) # 0 /\ OldSrc(rows - 1) # 0
    /\ last.err = "InvariantViolation"

\* C6: Diagonal matrix, view on column c. The assignment of a source succeeds if
\* and only if every source element at an index other than c is default; on
\* success matrix(c,c) is the source's element c and every other element of the
\* matrix is unchanged; on failure (InvariantViolation) the matrix is unchanged.
C6_DiagonalAssign ==
    (Done("=") /\ category = "Diagonal" /\ Matching)
    => LET off == \E i \in Idx(rows) : i # col_ /\ OldSrc(i) # 0
       IN  /\ (last.err = "none") <=> ~off
           /\ off => (last.err = "InvariantViolation" /\ matrix_ = last.old)
           /\ ~off => /\ matrix_[<<col_, col_>>] = OldSrc(col_)
                      /\ \A cell \in Cells(rows) :
                            cell # <<col_, col_>> => matrix_[cell] = last.old[cell]

C6_Witness ==
    /\ Done("=") /\ category = "Diagonal" /\ Matching
    /\ rows = MaxDim /\ last.err = "none"
    /\ OldSrc(col_) # 0
    /\ matrix_[<<col_, col_>>] # last.old[<<col_, col_>>]

\* C7 as claimed: each of =, +=, -=, *= on a restricted matrix fails with
\* InvariantViolation, leaving the matrix unchanged, whenever the invariant
\* checker reports a violation for the source.
C7_AllOpsChecked ==
    (pc = "done" /\ last.op \in VectorOps /\ IsRestricted(category) /\ Matching
        /\ ~preservesInvariant(category, col_, rows, last.src, last.old, variant))
    => (last.err = "InvariantViolation" /\ matrix_ = last.old)

\* C7 amended: =, += and -= on a restricted matrix consult the invariant
\* checker after the size check and before any write: they fail with
\* InvariantViolation, leaving the matrix unchanged, exactly when it reports a
\* violation. *= does the size check only: it never consults the checker and
\* never fails with InvariantViolation (it succeeds on every source of the
\* view's size), and the matrix keeps its structure.
C7_CheckedOps ==
    (pc = "done" /\ last.op \in VectorOps /\ IsRestricted(category))
    => LET bad == ~preservesInvariant(category, col_, rows, last.src, last.old, variant)
       IN  /\ ~Matching => last.err = "SizeMismatch"
           /\ (Matching /\ last.op # "*=") =>
                 /\ (last.err = "InvariantViolation") <=> bad
                 /\ bad => matrix_ = last.old
           /\ (Matching /\ last.op = "*=") =>
                 /\ last.err = "none"
                 /\ \A i \in Idx(rows) : View(matrix_, i) = Mul(View(last.old, i), OldSrc(i))
           /\ WellFormed(matrix_, rows, variant, category)

C7_Witness ==
    /\ Done("*=") /\ category = "Lower" /\ Matching
    /\ col_ = 1
    /\ ~preservesInvariant(category, col_, rows, last.src, last.old, variant)
    /\ last.err = "none"
    /\ \E i \in Idx(rows) : View(matrix_, i) # View(last.old, i)

\* C8: alias safety. For =, += and -= with a source that may reference the
\* view's matrix, the result is computed from the values the source had when
\* the operation started: afterwards view[i] = op(old view[i], old source[i]).
C8_AliasSafety ==
    (pc = "done" /\ last.op \in {"=", "+=", "-="} /\ canAlias(last.src)
        /\ Matching /\ last.err = "none")
    => \A i \in Idx(rows) :
          View(matrix_, i) =
              CASE last.op = "="  -> OldSrc(i)
                [] last.op = "+=" -> Add(View(last.old, i), OldSrc(i))
                [] last.op = "-=" -> Sub(View(last.old, i), OldSrc(i))

\* C9: self-assignment. The copy assignment of a view to itself, or of another
\* view object on the same matrix and the same column, raises no error and
\* leaves every element of the matrix unchanged.
C9_SelfAssign ==
    (Done("copy") /\ last.src.kind \in {"self", "column"} /\ last.src.j = col_)
    => (last.err = "none" /\ matrix_ = last.old)

C9_Witness ==
    /\ Done("copy") /\ last.src.kind = "column" /\ last.src.j = col_
    /\ rows = MaxDim
    /\ \A i \in Idx(rows) : Admissible(category, i, col_) => View(last.old, i) # 0
    /\ last.err = "none" /\ matrix_ = last.old

\* C10: after the assignment of a sparse vector s of the view's size to a view
\* on an unrestricted matrix (each specialization, any prior contents) view[i]
\* is s's stored value at every index s stores and the default value at every
\* other index.
C10_SparseAssign ==
    (Done("=") /\ category = "Unconstrained" /\ last.src.kind = "sparse" /\ Matching)
    => /\ last.err = "none"
       /\ \A i \in Idx(rows) :
             View(matrix_, i) =
                 IF last.src.vals[i] = NotStored THEN 0 ELSE last.src.vals[i]

C10_Witness ==
    /\ Done("=") /\ category = "Unconstrained" /\ last.src.kind = "sparse" /\ Matching
    /\ rows = MaxDim
    /\ \A i \in Idx(rows) : View(last.old, i) # 0
    /\ \E i \in Idx(rows) : last.src.vals[i] = NotStored /\ View(matrix_, i) = 0
    /\ \E i \in Idx(rows) : last.src.vals[i] \notin {NotStored, 0}

\* The matrix cells that hold element i of the view (in a symmetric matrix
\* the cell and its transpose are one element).
ViewCells(i) ==
    IF variant = "SYM" THEN {<<col_, i>>, <<i, col_>>} ELSE {<<i, col_>>}
HasView == pc \in {"ready", "done"}
Arg == last.src.vals[0]

\* C11: in every state a run of view operations and direct matrix writes
\* reaches on an unrestricted column-major matrix, size() is the number of rows
\* of the matrix and view[i] is matrix(i,col) for every i: the element a write
\* through view[i] stored is read as matrix(i,col), and the element a write to
\* matrix(i,col) stored is read as view[i].
C11_ViewIsColumn ==
    (HasView /\ variant = "CM" /\ category = "Unconstrained")
    => /\ size(rows) = Cardinality({cell \in DOMAIN matrix_ : cell[2] = 0})
       /\ \A i \in Idx(size(rows)) : View(matrix_, i) = matrix_[<<i, col_>>]
       /\ Done("write") => matrix_[<<last.src.j, col_>>] = Arg
       /\ (Done("matrix") /\ last.src.j = col_) => View(matrix_, last.src.n) = Arg

C11_Witness ==
    /\ variant = "CM" /\ category = "Unconstrained" /\ rows = MaxDim
    /\ steps = MaxSteps
    /\ Done("matrix") /\ last.src.j = col_
    /\ View(last.old, last.src.n) # Arg
    /\ View(matrix_, last.src.n) = Arg
    /\ \E i \in Idx(rows) : last.old[<<i, col_>>] # BaseMatrix(variant, category, rows)[<<i, col_>>]

\* C12 as claimed: element i of the view is matrix(i,col) for a column-major
\* matrix and matrix(col,i) for both row-major specializations, so a write of x
\* through view[i] leaves x at that coordinate.
C12_RowMajorTransposed ==
    Done("write")
    => IF variant = "CM" THEN matrix_[<<last.src.j, col_>>] = Arg
       ELSE matrix_[<<col_, last.src.j>>] = Arg

\* C12 amended: element i of the view is matrix(i,col) for a column-major
\* matrix and for the general row-major specialization, and matrix(col,i) for
\* the symmetric row-major specialization: a write of x through view[i] leaves
\* x at that coordinate and changes no other element of the matrix (but the
\* transposed cell, which in a symmetric matrix is the same element).
C12_Addressing ==
    Done("write")
    => LET i == last.src.j
           at == IF variant = "SYM" THEN <<col_, i>> ELSE <<i, col_>>
       IN  /\ last.err = "none"
           /\ matrix_[at] = Arg
           /\ View(matrix_, i) = Arg
           /\ \A cell \in Cells(rows) :
                 cell \notin ViewCells(i) => matrix_[cell] = last.old[cell]
           /\ variant # "SYM" => matrix_[<<col_, i>>] = IF i = col_ THEN Arg
                                                        ELSE last.old[<<col_, i>>]

C12_Witness ==
    /\ Done("write") /\ variant = "RM" /\ category = "Unconstrained"
    /\ rows = MaxDim /\ col_ = 0 /\ last.src.j = 1
    /\ matrix_[<<1, 0>>] = Arg /\ last.old[<<1, 0>>] # Arg
    /\ matrix_[<<0, 1>>] # Arg

\* C13: the homogeneous assignment view = s never fails and writes s to
\* view indices col .. size-1 for a lower matrix, 0 .. col for an upper matrix,
\* col alone for a diagonal matrix and every index for an unrestricted matrix;
\* every other element of the matrix is unchanged.
C13_ScalarRange ==
    Done("scalar")
    => LET range == CASE category = "Lower"    -> col_ .. (rows - 1)
                      [] category = "Upper"    -> 0 .. col_
                      [] category = "Diagonal" -> {col_}
                      [] OTHER                 -> Idx(rows)
       IN  /\ last.err = "none"
           /\ \A i \in range : View(matrix_, i) = Arg
           /\ \A cell \in Cells(rows) :
                 (\A i \in range : cell \notin ViewCells(i))
                 => matrix_[cell] = last.old[cell]

C13_Witness ==
    /\ Done("scalar") /\ category = "Lower" /\ rows = MaxDim /\ col_ = rows - 1
    /\ Arg # 0 /\ View(matrix_, col_) = Arg /\ View(last.old, col_) # Arg
    /\ \A i \in 0 .. (col_ - 1) : View(matrix_, i) = 0

\* C14: the identity of the view is fixed. Once the view is constructed no
\* operation (element write, scalar, vector and copy assignment that succeeds
\* or fails, reset, scale, a write to the matrix) changes its column index or
\* the size of the matrix, and the index stays below the number of columns.
C14_IdentityFixed ==
    /\ [][pc # "init" => (col_' = col_ /\ rows' = rows)]_vars
    /\ [](HasView => (col_ >= 0 /\ col_ < rows))

C14_Witness ==
    /\ steps = MaxSteps /\ pc = "done" /\ rows = MaxDim /\ col_ = rows - 1
    /\ last.op \in {"=", "copy"} /\ last.err = "InvariantViolation"
    /\ matrix_ # BaseMatrix(variant, category, rows)

\* C15: the copy assignment is a value copy. For a view b of the view's size
\* on another column of the same unrestricted matrix, or on a column of another
\* matrix, view = b succeeds, leaves view[i] = the value b[i] had before, for
\* every i, and leaves b's column as it was.
C15_ValueCopy ==
    (Done("copy") /\ category = "Unconstrained" /\ Matching
        /\ \/ last.src.kind = "foreign"
           \/ (last.src.kind = "column" /\ last.src.j # col_))
    => /\ last.err = "none"
       /\ \A i \in Idx(rows) : View(matrix_, i) = OldSrc(i)
       /\ last.src.kind = "column" =>
             \A i \in Idx(rows) :
                 At(matrix_, variant, last.src.j, i) = At(last.old, variant, last.src.j, i)

\* C16: reset(view) leaves every element of the view's column default, so
\* isDefault(view) evaluated on the state reset leaves is true whatever the
\* column held; and isDefault(view) is true exactly when every element of the
\* column is the default value.
C16_ResetIsDefault ==
    /\ Done("reset") =>
          /\ last.err = "none"
          /\ \A i \in Idx(rows) : View(matrix_, i) = 0
          /\ isDefault(matrix_, variant, col_, rows)
    /\ Done("isDefault") =>
          /\ matrix_ = last.old
          /\ last.ret <=> \A i \in Idx(rows) : View(matrix_, i) = 0

C16_Witness ==
    /\ Done("reset") /\ rows = MaxDim /\ category = "Unconstrained"
    /\ \A i \in Idx(rows) : View(last.old, i) # 0
    /\ ~isDefault(last.old, variant, col_, rows)
    /\ isDefault(matrix_, variant, col_, rows)

\* C17: isSame(a, b) is true exactly when a and b refer to the same matrix
\* object and to the same column index: true for the view and itself or
\* another view on its column, false for another column of the same matrix,
\* false for a view on another matrix, also with the same column index and
\* equal elements.
C17_IsSame ==
    Done("isSame")
    => /\ matrix_ = last.old
       /\ last.ret <=> (last.src.kind \in {"self", "column"} /\ last.src.j = col_)
       /\ last.src.kind = "foreign" => ~last.ret

C17_Witness ==
    /\ Done("isSame") /\ rows = MaxDim /\ category = "Unconstrained"
    /\ last.src.kind = "foreign" /\ last.src.j = col_
    /\ \A i \in Idx(rows) : last.src.vals[i] = View(matrix_, i) /\ View(matrix_, i) # 0
    /\ ~last.ret

\* C18: for a dense source of the view's size, view *= src leaves
\* view[i] = old view[i] * old src[i] for every i, when the source owns its
\* elements (product formed in place) and when it is a column of the view's
\* matrix, the view's own column included (product formed in a temporary).
C18_DenseMult ==
    (Done("*=") /\ Matching /\ last.src.kind \in {"dense", "column"})
    => /\ last.err = "none"
       /\ \A i \in Idx(rows) : View(matrix_, i) = Mul(View(last.old, i), OldSrc(i))

C18_Witness ==
    /\ Done("*=") /\ Matching /\ last.src.kind = "column" /\ rows = MaxDim
    /\ variant = "SYM" /\ last.src.j < col_
    /\ \A i \in Idx(rows) : View(last.old, i) # 0 /\ OldSrc(i) # 0
    /\ \E i \in Idx(rows) : View(matrix_, i) # View(last.old, i)

\* C19: the product of the view with a sparse source s of the view's size,
\* by operator*= or by the kernel multAssign, leaves
\* view[i] = old view[i] * s[i] at every index s stores and the default value
\* at every other index: the column's old values are taken before it is reset.
C19_SparseMult ==
    ((Done("*=") \/ Done("multAssign")) /\ Matching /\ last.src.kind = "sparse")
    => /\ last.err = "none"
       /\ \A i \in Idx(rows) :
             View(matrix_, i) =
                 IF last.src.vals[i] = NotStored THEN 0
                 ELSE Mul(View(last.old, i), last.src.vals[i])

C19_Witness ==
    /\ Done("multAssign") /\ rows = MaxDim
    /\ \A i \in Idx(rows) : View(last.old, i) # 0
    /\ \E i \in Idx(rows) : last.src.vals[i] = NotStored /\ View(matrix_, i) = 0
    /\ \E i \in Idx(rows) : last.src.vals[i] # NotStored /\ View(matrix_, i) # 0

C23_StructurePreserved ==
    /\ (IsLower(category) => isLower(matrix_, rows))
    /\ (IsUpper(category) => isUpper(matrix_, rows))

C23_Witness ==
    /\ pc = "done" /\ steps >= 2 /\ category = "Upper" /\ rows = 2 /\ col_ = 0
    /\ last.op = "scalar" /\ Arg # 0
    /\ last.old # BaseMatrix(variant, category, rows)
    /\ matrix_ # last.old
    /\ isUpper(matrix_, rows)

\* C24 as claimed: stage order of view = v in the three specializations. The
\* size check and the invariant check come first (a failure leaves the matrix
\* as it was); when the alias test runs and the temporary is built no element
\* of the matrix has been modified, the reset for a sparse source included;
\* so an aliasing source is transferred with the values it had before.
C24_StageOrder ==
    Done("=") =>
        /\ ~Matching => (last.err = "SizeMismatch" /\ matrix_ = last.old)
        /\ last.err # "none" => matrix_ = last.old
        /\ (Matching /\ last.err = "none") =>
              /\ atAliasStage(last.old, variant, col_, rows, last.src) = last.old
              /\ canAlias(last.src) => \A i \in Idx(rows) : View(matrix_, i) = OldSrc(i)

\* C25: frame of view mutations. Every mutating operation through a view on
\* an Unconstrained matrix that is not symmetric (element write, homogeneous,
\* vector and copy assignment, +=, -=, *=, scalar *= and /=, scale, reset),
\* whether it succeeds or fails, leaves every element of every other column
\* with the value it had before the operation.
C25_Frame ==
    (pc = "done" /\ category = "Unconstrained" /\ variant # "SYM")
    => \A i \in Idx(rows), j \in Idx(rows) :
          j # col_ => matrix_[<<i, j>>] = last.old[<<i, j>>]

C25_Witness ==
    /\ pc = "done" /\ category = "Unconstrained" /\ variant = "RM" /\ rows = 2
    /\ last.op = "/=s" /\ Arg = 2
    /\ \E i \in Idx(rows) : View(matrix_, i) # View(last.old, i)
    /\ \E i \in Idx(rows), j \in Idx(rows) :
          j # col_ /\ matrix_[<<i, j>>] # 0 /\ matrix_[<<i, j>>] = last.old[<<i, j>>]

\* The elements the sparse check of the category visits for the source.
visitedBySparseCheck(cat, c, n, src, m, v) ==
    CASE cat = "Lower"    -> scanLowerSparse(c, n, src, m, v).visited
      [] cat = "Upper"    -> scanUpperSparse(c, n, src, m, v).visited
      [] cat = "Diagonal" -> scanDiagSparse(c, n, src, m, v).visited

\* C26: the sparse and the dense invariant checker agree. For =, += or -=
\* with a sparse vector s of the view's size on a Lower, Upper or Diagonal
\* matrix, s possibly storing default values explicitly, the check made for s
\* has the result of the dense check on the dense vector with the same
\* elements (and the operation fails exactly when that dense check fails),
\* and it visits only stored elements with index < col (Lower), index > col
\* (Upper).
C26_CheckersAgree ==
    (pc = "done" /\ last.op \in {"=", "+=", "-="} /\ IsRestricted(category)
        /\ Matching /\ IsSparseVector(last.src))
    => LET dense   == MaterializeDense(last.src, last.old, variant)
           sparse  == preservesInvariant(category, col_, rows, last.src, last.old, variant)
           visited == visitedBySparseCheck(category, col_, rows, last.src, last.old, variant)
       IN  /\ sparse = preservesInvariant(category, col_, rows, dense, last.old, variant)
           /\ (last.err = "none") <=> preservesInvariant(category, col_, rows, dense, last.old, variant)
           /\ \A i \in visited : SrcStored(last.src, i)
           /\ category = "Lower" => \A i \in visited : i < col_
           /\ category = "Upper" => \A i \in visited : i > col_

C26_Witness ==
    /\ Done("=") /\ category = "Lower" /\ rows = 2 /\ col_ = 1
    /\ last.src.kind = "sparse" /\ Matching
    /\ last.src.vals[0] = 0 /\ last.src.vals[1] = 2
    /\ last.err = "none"
    /\ visitedBySparseCheck(category, col_, rows, last.src, last.old, variant) = {0}
    /\ View(matrix_, 1) = 2

\* C27: the scalar kernels assign, addAssign, subAssign and multAssign for a
\* dense vector (loop unrolled by two, one tail statement) apply their
\* operation to every index of [0, size) exactly once and to nothing else,
\* for every size (0, 1, odd, even): the column is the one a plain loop over
\* the elements gives, and every other element of the matrix stays.
C27_ScalarKernels ==
    (pc = "done" /\ last.op \in KernelOps /\ last.src.kind = "dense")
    => /\ \A i \in Idx(rows) :
             View(matrix_, i) = Combine(last.op, View(last.old, i), last.src.vals[i])
       /\ \A rc \in Cells(rows) :
             (\A i \in Idx(rows) : rc \notin ViewCells(i)) => matrix_[rc] = last.old[rc]

C27_Witness ==
    /\ pc = "done" /\ last.op = "add" /\ last.src.kind = "dense" /\ rows = 5 /\ col_ = 2
    /\ \A i \in Idx(rows) : last.src.vals[i] = 1
    /\ View(matrix_, 4) = Add(View(last.old, 4), 1)
    /\ View(matrix_, 3) = Add(View(last.old, 3), 1)

VectorizedOps == {"vassign", "vadd", "vsub", "vmult"}
KernelOf(op) ==
    CASE op = "vassign" -> "assign" [] op = "vadd" -> "add"
      [] op = "vsub" -> "sub" [] op = "vmult" -> "mult"

\* C28: the vectorized kernels with ordinary stores. For every column length
\* rows and every block width W (a power of two), ipos = rows & size_t(-W*4)
\* is rows - rows % (W*4), as the assertion 'Invalid end calculation' states;
\* the loop unrolled four times and the remainder loop together issue exactly
\* one block store at each multiple of W in [0, rows), in increasing order,
\* each with the source iterator at the same offset (it advances by W per
\* store), so that every element of the column gets the operation with the
\* element of the source at its index.
C28_SimdBlocks ==
    (pc = "done" /\ last.op \in VectorizedOps /\ ~last.ret.streamed)
    => LET t == last.ret
           W == t.W
           nblocks == (rows + W - 1) \div W
       IN  /\ t.ipos = rows - (rows % (W * 4))
           /\ t.stores = [k \in 1 .. nblocks |-> <<(k - 1) * W, (k - 1) * W>>]
           /\ t.it = nblocks * W
           /\ last.src.kind = "dense" =>
                 \A i \in Idx(rows) :
                     View(matrix_, i) =
                         Combine(KernelOf(last.op), View(last.old, i), last.src.vals[i])

C28_Witness ==
    /\ pc = "done" /\ last.op = "vadd" /\ rows = 17 /\ col_ = 3
    /\ last.ret.W = 4 /\ last.ret.ipos = 16
    /\ Len(last.ret.stores) = 5
    /\ last.ret.stores[5] = <<16, 16>>
    /\ View(matrix_, 16) # View(last.old, 16)

\* C29: the vectorized assign takes the streaming stores only when streaming
\* is enabled, the column is strictly longer than
\* cacheSize / ( sizeof(ElementType) * 3 ) and the source is not aliased with
\* the view; and whenever it takes them, the matrix it leaves is the one the
\* path with ordinary stores leaves for the same input.
C29_Streaming ==
    (pc = "done" /\ last.op = "vassign" /\ last.ret.streamed)
    => /\ last.ret.useStreaming
       /\ rows > cacheSize \div (sizeofElementType * 3)
       /\ ~isAliased(last.src, col_)
       /\ matrix_ = VectorizedKernel("assign", last.old, variant, col_, last.src, last.ret.W).m

C29_Witness ==
    /\ pc = "done" /\ last.op = "vassign" /\ last.ret.streamed
    /\ rows = 9 /\ col_ = 2 /\ last.ret.W = 4
    /\ last.src.kind = "column" /\ last.src.j = 1
    /\ matrix_ # last.old
    /\ \A i \in Idx(rows) : matrix_[<<i, 2>>] = last.old[<<i, 1>>]

\* C22: iteration in the general row-major specialization. From begin(), ++
\* reaches end() after exactly size() increments (none for an empty column);
\* the elements dereferenced on the way are matrix(i,col) for i = 0, 1, ...
\* in that order; end() - begin() = size(); the matrix is not modified, and a
\* second pass from begin() yields the sequence of the first.
C22_Iteration ==
    pc = "iter" =>
        LET t == last.ret
        IN  /\ t.it = ItPlus(begin(col_), t.incs)
            /\ t.incs <= size(rows)
            /\ ItEqual(t.it, end(rows, col_)) <=> t.incs = size(rows)
            /\ t.seen = [k \in 1 .. t.incs |-> matrix_[<<k - 1, col_>>]]
            /\ ItDifference(end(rows, col_), begin(col_)) = size(rows)
            /\ matrix_ = last.old
            /\ (steps > 0 /\ ItEqual(t.it, end(rows, col_))) => t.seen = t.prev

C22_Witness ==
    /\ pc = "iter" /\ steps = 1 /\ rows = 2 /\ col_ = 1 /\ category = "Unconstrained"
    /\ ItEqual(last.ret.it, end(rows, col_))
    /\ last.ret.incs = 2
    /\ last.ret.seen = <<matrix_[<<0, 1>>], matrix_[<<1, 1>>]>>
    /\ last.ret.prev = last.ret.seen
    /\ matrix_[<<0, 1>>] # matrix_[<<1, 0>>]

\* C30: the comparisons of ColumnIterator. For a and b over the same matrix and
\* the same column exactly one of a < b, a == b, a > b holds, a <= b iff
\* (a < b or a == b), a >= b iff (a > b or a == b); a != b iff not (a == b)
\* always; for a and b over different columns or different matrices ==, <, >,
\* <= and >= are all false and != is true.
C30_Comparisons ==
    Done("compare") =>
        LET t == last.ret
            B2N(x) == IF x THEN 1 ELSE 0
        IN  /\ t.ne <=> ~t.eq
            /\ (t.a.matrix = t.b.matrix /\ t.a.column = t.b.column) =>
                  /\ B2N(t.lt) + B2N(t.eq) + B2N(t.gt) = 1
                  /\ t.le <=> (t.lt \/ t.eq)
                  /\ t.ge <=> (t.gt \/ t.eq)
                  /\ t.lt <=> t.a.row < t.b.row
            /\ (t.a.matrix # t.b.matrix \/ t.a.column # t.b.column) =>
                  (~t.eq /\ ~t.lt /\ ~t.gt /\ ~t.le /\ ~t.ge /\ t.ne)

C30_Witness ==
    /\ Done("compare")
    /\ last.ret.a.matrix = last.ret.b.matrix /\ last.ret.a.column # last.ret.b.column
    /\ last.ret.a.row < last.ret.b.row
    /\ ~last.ret.lt /\ ~last.ret.ge /\ last.ret.ne

\* C21: two assignments that run at the same time through views on two
\* different columns of an Unconstrained matrix that is not symmetric, from
\* sources that do not read the matrix, are safe: whatever the interleaving
\* of their element reads and writes, the matrix they leave is the one that
\* executing the two assignments one after the other leaves, in either order.
C21_ConcurrentColumns ==
    (pc = "done" /\ last.op = "concurrent")
    => LET r == last.ret
           first(t, m) == assign(m, variant, r.c[t], r.src[t])
       IN  /\ matrix_ = first(2, first(1, last.old))
           /\ matrix_ = first(1, first(2, last.old))

C21_Witness ==
    /\ pc = "done" /\ last.op = "concurrent" /\ rows = 2
    /\ last.ret.c = <<1, 0>>
    /\ last.ret.src[1] # last.ret.src[2]
    /\ \A j \in Idx(rows) : \E i \in Idx(rows) : matrix_[<<i, j>>] # last.old[<<i, j>>]
    /\ \A i \in Idx(rows) : matrix_[<<i, 1>>] = last.ret.src[1].vals[i]

====
